---- MODULE Spec2Model ----
(***************************************************************************)
(* Gafaelfawr: child-token cache and issuer (services/token_cache.py),     *)
(* upstream OpenID Connect token verifier (providers/oidc.py) and the      *)
(* downstream OpenID Connect authorization-code service.                   *)
(***************************************************************************)
EXTENDS Integers, Sequences, FiniteSets, TLC

(***************************************************************************)
(* Bounds of the model.                                                    *)
(***************************************************************************)
\* The wall clock runs from 0 to MaxTime.
MaxTime == 3
\* Number of Token() keys the issuer may generate.
MaxTokens == 2
\* Number of entries of the upstream issuer's key set.
MaxKeys == 2
\* Number of authorization codes issue_code may generate.
MaxCodes == 2

(***************************************************************************)
(* Program constants and small input sets.                                 *)
(***************************************************************************)
\* config.token_lifetime, in clock units (even, so that half of it is whole).
TokenLifetime == 4
\* Python None: an absent Token, an absent key, a parent without expiration.
None == 0

Callers == {"c1", "c2"}
Parents == {"p1"}
\* token_data.username and token_data.scopes of the parent tokens.
ParentUser == [p1 |-> "u1"]
ParentScopes == [p1 |-> {"a"}]
Users == {ParentUser[p] : p \in Parents}
\* token_data.expires of a parent as passed to a call.
ParentExpiries == {None, 3, 5}
Services == {"s1", "s2"}
ScopeSets == {{"a"}, {"a", "b"}}
\* data.scopes and data.expires of a K/V record given to _is_token_valid.
StoredScopeSets == {{"a"}, {"b"}, {"a", "b"}}
StoredExpiries == {None, 2, 4}
TokenKeys == 1..MaxTokens

\* The local variable "data" before it is assigned.
NoData == [key |-> None, username |-> "", ttype |-> "", scopes |-> {},
           created |-> 0, expires |-> None]
\* The arguments of a call before the first call.
NoReq == [scopes |-> {}, kind |-> "none", parent |-> "p1", pexp |-> None,
          service |-> ""]

VARIABLES
    now,            \* current_datetime()
    kv,             \* TokenRedisStore: the TokenData records under token:<key>
    db,             \* TokenDatabaseStore: token rows with parent and service
    history,        \* TokenChangeHistoryStore: the change entries
    internalCache,  \* InternalTokenCache: key -> token
    notebookCache,  \* NotebookTokenCache: key -> token
    userLock,       \* the per-user lock: its holder, or "free"
    nextKey,        \* the next key Token() generates
    pc,             \* where each caller is in its call
    req,            \* the arguments of each caller's call
    tok,            \* the local "token" / "key" of each call
    data,           \* the local "data" of each call
    minExp,         \* the value of _minimum_expiration() in each call
    ret,            \* the token returned by each call (None until it returns)
    path,           \* how the returned token was obtained
    sameTick,       \* whether the clock has not advanced since the call was made
    jwks,           \* the "keys" array the upstream issuer serves
    vpc,            \* where verify_token is
    vtoken,         \* the token given to verify_token
    vurl,           \* the JWKS URL _get_keys requests
    vresult,        \* how verify_token ended: "ok" or the error raised
    vreqs,          \* the HTTP requests verify_token has made in this call
    okMat,          \* the key that verified the latest successful earlier call
    vdisc,          \* what the discovery request of this call came back with
    oidcKv,         \* the stored authorization codes, oidc:<code.key>
    nextCode,       \* the next authorization code key
    sessions,       \* the session tokens that are valid
    successes,      \* per code, the number of redeem_code calls that succeeded
    lastCall,       \* the latest issue_code or redeem_code call and its result
    lastArgs,       \* client_id and redirect_uri of that call, those of
                    \* the stored code it named as they were before the
                    \* call, and whether the secret of the code matched
    callBit,        \* flips at every issue_code and redeem_code call
    ppc,            \* where create_user_info is
    presp,          \* status and body of the token endpoint's response
    phanded,        \* whether the id_token of this call went to verify_token
    presult,        \* how create_user_info ended: "user_info" or the error
    loginParams,    \* config.login_params, as (name, value) pairs in order
    redirectUrl,    \* the URL get_redirect_url returned, or "none"
    tokIn,          \* the string given to Token.from_str
    tokOut          \* what from_str made of it and str() of that, or the error

cacheVars == <<now, kv, db, history, internalCache, notebookCache, userLock,
               nextKey, pc, req, tok, data, minExp, ret, path, sameTick>>
verifierVars == <<jwks, vpc, vtoken, vurl, vresult, vreqs, okMat, vdisc>>
codeVars == <<oidcKv, nextCode, sessions, successes, lastCall, lastArgs,
              callBit>>
providerVars == <<ppc, presp, phanded, presult>>
urlVars == <<loginParams, redirectUrl>>
codecVars == <<tokIn, tokOut>>
pureVars == <<urlVars, codecVars>>
vars == <<cacheVars, verifierVars, codeVars, providerVars, pureVars>>

stores == <<kv, db, history>>
caches == <<internalCache, notebookCache>>

(***************************************************************************)
(* Cache keys (the cache module: notebook tokens are cached under the key  *)
(* of the parent and its expiration, internal tokens add the service and   *)
(* the requested scopes).                                                  *)
(***************************************************************************)
InternalKeys == Parents \X ParentExpiries \X Services \X ScopeSets
NotebookKeys == Parents \X ParentExpiries

InternalKey(r) == <<r.parent, r.pexp, r.service, r.scopes>>
NotebookKey(r) == <<r.parent, r.pexp>>

(***************************************************************************)
(* The stores.                                                             *)
(***************************************************************************)
\* TokenRedisStore.get_data / get_data_by_key: is there a record for key k
KvHas(k) == \E r \in kv : r.key = k
KvData(k) == CHOOSE r \in kv : r.key = k

\* get_internal_token_key that does not look at the expiration
GetInternalTokenKeysAnyExpiry(parent, service, scopes, min_expires) ==
    {row.key : row \in {x \in db : /\ x.parent = parent
                                   /\ x.ttype = "internal"
                                   /\ x.service = service
                                   /\ x.scopes = scopes}}

\* TokenDatabaseStore.get_internal_token_key: the keys it may return
GetInternalTokenKeys(parent, service, scopes, min_expires) ==
    {row.key : row \in {x \in db : /\ x.parent = parent
                                   /\ x.ttype = "internal"
                                   /\ x.service = service
                                   /\ x.scopes = scopes
                                   /\ x.expires >= min_expires}}

\* TokenDatabaseStore.get_notebook_token_key: the keys it may return
GetNotebookTokenKeys(parent, min_expires) ==
    {row.key : row \in {x \in db : /\ x.parent = parent
                                   /\ x.ttype = "notebook"
                                   /\ x.expires >= min_expires}}

(***************************************************************************)
(* TokenCacheService helpers.                                              *)
(***************************************************************************)
\* _is_token_valid with the scope test dropped
IsTokenValidNoScopes(token, scopes, withScopes) ==
    /\ KvHas(token)
    /\ LET d == KvData(token)
       IN  d.expires # None =>
               ~(2 * (d.expires - now) < d.expires - d.created)

\* _is_token_valid with a lifetime test that rejects nothing
IsTokenValidNoHalfLife(token, scopes, withScopes) ==
    /\ KvHas(token)
    /\ LET d == KvData(token)
       IN  withScopes => d.scopes \subseteq scopes

\* _is_token_valid that asks for strictly more than half of the lifetime
IsTokenValidStrict(token, scopes, withScopes) ==
    /\ KvHas(token)
    /\ LET d == KvData(token)
       IN  /\ withScopes => d.scopes \subseteq scopes
           /\ d.expires # None =>
               2 * (d.expires - now) > d.expires - d.created

\* _is_token_valid(token, scopes); withScopes is "scopes is not None"
IsTokenValid(token, scopes, withScopes) ==
    /\ KvHas(token)
    /\ LET d == KvData(token)
       IN  /\ withScopes => d.scopes \subseteq scopes
           /\ d.expires # None =>
               ~(2 * (d.expires - now) < d.expires - d.created)

\* _minimum_expiration(token_data)
\* _minimum_expiration that asks only for a token that has not expired
MinimumExpirationNow(pexp) == now

MinimumExpiration(pexp) ==
    LET min_expires == now + TokenLifetime \div 2
    IN  IF pexp # None /\ min_expires > pexp THEN pexp ELSE min_expires

\* expires of a new child token: created + token_lifetime, capped by the parent
NewExpires(pexp) ==
    LET expires == now + TokenLifetime
    IN  IF pexp # None /\ pexp < expires THEN pexp ELSE expires

\* The TokenData of a new child token of the call's parent
NewData(r, ttype, scopes) ==
    [key |-> nextKey, username |-> ParentUser[r.parent], ttype |-> ttype,
     scopes |-> scopes, created |-> now, expires |-> NewExpires(r.pexp)]

\* The TokenChangeHistoryEntry of a new child token
HistoryEntry(r, d) ==
    [ttype |-> d.ttype, scopes |-> d.scopes, expires |-> d.expires,
     parent |-> r.parent, service |-> r.service, token |-> d.key,
     action |-> "create", event_time |-> d.created]

\* TokenDatabaseStore.add(data, service=..., parent=...)
DbRow(r, d) ==
    [key |-> d.key, ttype |-> d.ttype, scopes |-> d.scopes,
     expires |-> d.expires, parent |-> r.parent, service |-> r.service]

TypeOK ==
    /\ now \in 0..MaxTime
    /\ nextKey \in 1..(MaxTokens + 1)
    /\ internalCache \in [InternalKeys -> TokenKeys \cup {None}]
    /\ notebookCache \in [NotebookKeys -> TokenKeys \cup {None}]
    /\ userLock \in [Users -> Callers \cup {"free"}]
    /\ \A r \in kv : r.key \in TokenKeys
    /\ \A c \in Callers : ret[c] \in TokenKeys \cup {None}

CacheInit ==
    /\ now = 0
    /\ kv = {}
    /\ db = {}
    /\ history = {}
    /\ internalCache = [k \in InternalKeys |-> None]
    /\ notebookCache = [k \in NotebookKeys |-> None]
    /\ userLock = [u \in Users |-> "free"]
    /\ nextKey = 1
    /\ pc = [c \in Callers |-> "idle"]
    /\ req = [c \in Callers |-> NoReq]
    /\ tok = [c \in Callers |-> None]
    /\ data = [c \in Callers |-> NoData]
    /\ minExp = [c \in Callers |-> None]
    /\ ret = [c \in Callers |-> None]
    /\ path = [c \in Callers |-> "none"]
    /\ sameTick = [c \in Callers |-> TRUE]

(***************************************************************************)
(* The per-user lock of the caches.                                        *)
(***************************************************************************)
\* TokenCache.lock(username): the lock of the user is not held
LockFree(user) == userLock[user] = "free"

InCritical(c) ==
    pc[c] \in {"check", "query", "kvget", "store_kv", "store_db", "store_hist"}

(***************************************************************************)
(* Steps shared by get_internal_token and get_notebook_token.              *)
(***************************************************************************)
\* "return token" inside "async with": the lock is released on the way out
Return(c, d, how) ==
    /\ pc' = [pc EXCEPT ![c] = "done"]
    /\ ret' = [ret EXCEPT ![c] = d.key]
    /\ data' = [data EXCEPT ![c] = d]
    /\ path' = [path EXCEPT ![c] = how]
    /\ tok' = [tok EXCEPT ![c] = None]
    /\ userLock' = [userLock EXCEPT ![ParentUser[req[c].parent]] = "free"]

\* token = Token(); created = current_datetime(); data = TokenData(...)
StartMint(c, ttype, scopes) ==
    /\ nextKey <= MaxTokens
    /\ data' = [data EXCEPT ![c] = NewData(req[c], ttype, scopes)]
    /\ nextKey' = nextKey + 1
    /\ pc' = [pc EXCEPT ![c] = "store_kv"]

\* A caller makes a call: its locals are fresh
Enter(c, r) ==
    /\ pc[c] \in {"idle", "done", "failed"}
    /\ r.pexp = None \/ r.pexp > now
    /\ pc' = [pc EXCEPT ![c] = "lock"]
    /\ req' = [req EXCEPT ![c] = r]
    /\ tok' = [tok EXCEPT ![c] = None]
    /\ data' = [data EXCEPT ![c] = NoData]
    /\ minExp' = [minExp EXCEPT ![c] = None]
    /\ ret' = [ret EXCEPT ![c] = None]
    /\ path' = [path EXCEPT ![c] = "none"]
    /\ sameTick' = [sameTick EXCEPT ![c] = TRUE]
    /\ UNCHANGED <<verifierVars, codeVars, providerVars, pureVars>>
    /\ UNCHANGED <<now, stores, caches, userLock, nextKey>>

(***************************************************************************)
(* get_internal_token and _create_internal_token.                          *)
(***************************************************************************)
\* get_internal_token(token_data, service, scopes, ip_address) is called
CallInternal(c, p, pe, svc, sc) ==
    Enter(c, [scopes |-> sc, kind |-> "internal", parent |-> p,
              pexp |-> pe, service |-> svc])

\* get_internal_token entered without taking the lock
InternalLockNotTaken(c) ==
    /\ pc[c] = "lock"
    /\ req[c].kind = "internal"
    /\ pc' = [pc EXCEPT ![c] = "check"]
    /\ UNCHANGED <<verifierVars, codeVars, providerVars, pureVars>>
    /\ UNCHANGED <<now, stores, caches, userLock, nextKey, req, tok, data,
                   minExp, ret, path, sameTick>>

\* async with await self._internal_cache.lock(token_data.username)
InternalLock(c) ==
    /\ pc[c] = "lock"
    /\ req[c].kind = "internal"
    /\ LockFree(ParentUser[req[c].parent])
    /\ userLock' = [userLock EXCEPT ![ParentUser[req[c].parent]] = c]
    /\ pc' = [pc EXCEPT ![c] = "check"]
    /\ UNCHANGED <<verifierVars, codeVars, providerVars, pureVars>>
    /\ UNCHANGED <<now, stores, caches, nextKey, req, tok, data, minExp,
                   ret, path, sameTick>>

\* get_internal_token recording a history entry when it returns the cached
\* token
InternalCheckRecordsHit(c) ==
    /\ pc[c] = "check"
    /\ req[c].kind = "internal"
    /\ LET r == req[c]
           token == internalCache[InternalKey(r)]
       IN  IF token # None /\ IsTokenValid(token, r.scopes, TRUE)
           THEN /\ Return(c, KvData(token), "cache")
                /\ history' = history \cup
                       {[HistoryEntry(r, KvData(token))
                            EXCEPT !.action = "access"]}
                /\ UNCHANGED minExp
           ELSE /\ pc' = [pc EXCEPT ![c] = "query"]
                /\ minExp' = [minExp EXCEPT
                                 ![c] = MinimumExpiration(r.pexp)]
                /\ UNCHANGED <<data, ret, path, userLock, history>>
    /\ (pc'[c] = "query" => UNCHANGED tok)
    /\ UNCHANGED <<verifierVars, codeVars, providerVars, pureVars>>
    /\ UNCHANGED <<now, kv, db, caches, nextKey, req, sameTick>>

\* token = cache.get(...); if token and await _is_token_valid(token, scopes):
\* return token; otherwise _create_internal_token is entered and the
\* minimum expiration is computed for the database query
InternalCheck(c) ==
    /\ pc[c] = "check"
    /\ req[c].kind = "internal"
    /\ LET r == req[c]
           token == internalCache[InternalKey(r)]
       IN  IF token # None /\ IsTokenValid(token, r.scopes, TRUE)
           THEN /\ Return(c, KvData(token), "cache")
                /\ UNCHANGED minExp
           ELSE /\ pc' = [pc EXCEPT ![c] = "query"]
                /\ minExp' = [minExp EXCEPT
                                 ![c] = MinimumExpiration(r.pexp)]
                /\ UNCHANGED <<data, ret, path, userLock>>
    /\ (pc'[c] = "query" => UNCHANGED tok)
    /\ UNCHANGED <<verifierVars, codeVars, providerVars, pureVars>>
    /\ UNCHANGED <<now, stores, caches, nextKey, req, sameTick>>

\* key = await get_internal_token_key(...); without a key a token is created
InternalQuery(c) ==
    /\ pc[c] = "query"
    /\ req[c].kind = "internal"
    /\ LET r == req[c]
           keys == GetInternalTokenKeys(r.parent, r.service, r.scopes,
                                        minExp[c])
       IN  \/ /\ \E key \in keys : tok' = [tok EXCEPT ![c] = key]
              /\ pc' = [pc EXCEPT ![c] = "kvget"]
              /\ UNCHANGED <<data, nextKey>>
           \/ /\ keys = {}
              /\ StartMint(c, "internal", r.scopes)
              /\ UNCHANGED tok
    /\ UNCHANGED <<verifierVars, codeVars, providerVars, pureVars>>
    /\ UNCHANGED <<now, stores, caches, userLock, req, minExp, ret, path,
                   sameTick>>

\* get_internal_token returning a reused token without storing it in the
\* cache
InternalKvGetNoCache(c) ==
    /\ pc[c] = "kvget"
    /\ req[c].kind = "internal"
    /\ LET r == req[c]
       IN  IF KvHas(tok[c])
           THEN /\ Return(c, KvData(tok[c]), "reuse")
                /\ UNCHANGED <<internalCache, nextKey>>
           ELSE /\ StartMint(c, "internal", r.scopes)
                /\ UNCHANGED <<internalCache, ret, path, userLock>>
    /\ (pc'[c] = "store_kv" => UNCHANGED tok)
    /\ UNCHANGED minExp
    /\ UNCHANGED <<verifierVars, codeVars, providerVars, pureVars>>
    /\ UNCHANGED <<now, stores, notebookCache, req, sameTick>>

\* data = await get_data_by_key(key); if data: return data.token, which
\* get_internal_token stores in the cache and returns; else a token is created
InternalKvGet(c) ==
    /\ pc[c] = "kvget"
    /\ req[c].kind = "internal"
    /\ LET r == req[c]
       IN  IF KvHas(tok[c])
           THEN /\ internalCache' =
                       [internalCache EXCEPT ![InternalKey(r)] = tok[c]]
                /\ Return(c, KvData(tok[c]), "reuse")
                /\ UNCHANGED nextKey
           ELSE /\ StartMint(c, "internal", r.scopes)
                /\ UNCHANGED <<internalCache, ret, path, userLock>>
    /\ (pc'[c] = "store_kv" => UNCHANGED tok)
    /\ UNCHANGED minExp
    /\ UNCHANGED <<verifierVars, codeVars, providerVars, pureVars>>
    /\ UNCHANGED <<now, stores, notebookCache, req, sameTick>>

\* _create_internal_token going on to the relational write with the K/V
\* record not written
InternalStoreKvSkipped(c) ==
    /\ pc[c] = "store_kv"
    /\ req[c].kind = "internal"
    /\ pc' = [pc EXCEPT ![c] = "store_db"]
    /\ UNCHANGED <<verifierVars, codeVars, providerVars, pureVars>>
    /\ UNCHANGED <<now, stores, caches, userLock, nextKey, req, tok,
                   data, minExp, ret, path, sameTick>>

\* await self._token_redis_store.store_data(data)
InternalStoreKv(c) ==
    /\ pc[c] = "store_kv"
    /\ req[c].kind = "internal"
    /\ kv' = kv \cup {data[c]}
    /\ pc' = [pc EXCEPT ![c] = "store_db"]
    /\ UNCHANGED <<verifierVars, codeVars, providerVars, pureVars>>
    /\ UNCHANGED <<now, db, history, caches, userLock, nextKey, req, tok,
                   data, minExp, ret, path, sameTick>>

\* await self._token_db_store.add(data, service=service, parent=...)
InternalStoreDb(c) ==
    /\ pc[c] = "store_db"
    /\ req[c].kind = "internal"
    /\ db' = db \cup {DbRow(req[c], data[c])}
    /\ pc' = [pc EXCEPT ![c] = "store_hist"]
    /\ UNCHANGED <<verifierVars, codeVars, providerVars, pureVars>>
    /\ UNCHANGED <<now, kv, history, caches, userLock, nextKey, req, tok,
                   data, minExp, ret, path, sameTick>>

\* await self._token_change_store.add(history_entry); return token, which
\* get_internal_token stores in the cache and returns
InternalStoreHist(c) ==
    /\ pc[c] = "store_hist"
    /\ req[c].kind = "internal"
    /\ history' = history \cup {HistoryEntry(req[c], data[c])}
    /\ internalCache' =
           [internalCache EXCEPT ![InternalKey(req[c])] = data[c].key]
    /\ Return(c, data[c], "mint")
    /\ UNCHANGED <<verifierVars, codeVars, providerVars, pureVars>>
    /\ UNCHANGED <<now, kv, db, notebookCache, nextKey, req, minExp,
                   sameTick>>

(***************************************************************************)
(* get_notebook_token and _create_notebook_token.                          *)
(***************************************************************************)
\* get_notebook_token(token_data, ip_address) is called
CallNotebook(c, p, pe) ==
    Enter(c, [scopes |-> ParentScopes[p], kind |-> "notebook",
              parent |-> p, pexp |-> pe, service |-> ""])

\* get_notebook_token entered without taking the lock
NotebookLockNotTaken(c) ==
    /\ pc[c] = "lock"
    /\ req[c].kind = "notebook"
    /\ pc' = [pc EXCEPT ![c] = "check"]
    /\ UNCHANGED <<verifierVars, codeVars, providerVars, pureVars>>
    /\ UNCHANGED <<now, stores, caches, userLock, nextKey, req, tok, data,
                   minExp, ret, path, sameTick>>

\* async with await self._notebook_cache.lock(token_data.username)
NotebookLock(c) ==
    /\ pc[c] = "lock"
    /\ req[c].kind = "notebook"
    /\ LockFree(ParentUser[req[c].parent])
    /\ userLock' = [userLock EXCEPT ![ParentUser[req[c].parent]] = c]
    /\ pc' = [pc EXCEPT ![c] = "check"]
    /\ UNCHANGED <<verifierVars, codeVars, providerVars, pureVars>>
    /\ UNCHANGED <<now, stores, caches, nextKey, req, tok, data, minExp,
                   ret, path, sameTick>>

\* token = cache.get(token_data); if token and await _is_token_valid(token):
\* return token; otherwise _create_notebook_token is entered
NotebookCheck(c) ==
    /\ pc[c] = "check"
    /\ req[c].kind = "notebook"
    /\ LET r == req[c]
           token == notebookCache[NotebookKey(r)]
       IN  IF token # None /\ IsTokenValid(token, {}, FALSE)
           THEN /\ Return(c, KvData(token), "cache")
                /\ UNCHANGED minExp
           ELSE /\ pc' = [pc EXCEPT ![c] = "query"]
                /\ minExp' = [minExp EXCEPT
                                 ![c] = MinimumExpiration(r.pexp)]
                /\ UNCHANGED <<data, ret, path, userLock>>
    /\ (pc'[c] = "query" => UNCHANGED tok)
    /\ UNCHANGED <<verifierVars, codeVars, providerVars, pureVars>>
    /\ UNCHANGED <<now, stores, caches, nextKey, req, sameTick>>

\* key = await get_notebook_token_key(...); without a key a token is created
NotebookQuery(c) ==
    /\ pc[c] = "query"
    /\ req[c].kind = "notebook"
    /\ LET r == req[c]
           keys == GetNotebookTokenKeys(r.parent, minExp[c])
       IN  \/ /\ \E key \in keys : tok' = [tok EXCEPT ![c] = key]
              /\ pc' = [pc EXCEPT ![c] = "kvget"]
              /\ UNCHANGED <<data, nextKey>>
           \/ /\ keys = {}
              /\ StartMint(c, "notebook", ParentScopes[r.parent])
              /\ UNCHANGED tok
    /\ UNCHANGED <<verifierVars, codeVars, providerVars, pureVars>>
    /\ UNCHANGED <<now, stores, caches, userLock, req, minExp, ret, path,
                   sameTick>>

\* _create_notebook_token raising when the K/V store has no data for the key
NotebookKvGetRaises(c) ==
    /\ pc[c] = "kvget"
    /\ req[c].kind = "notebook"
    /\ LET r == req[c]
       IN  IF KvHas(tok[c])
           THEN /\ notebookCache' =
                       [notebookCache EXCEPT ![NotebookKey(r)] = tok[c]]
                /\ Return(c, KvData(tok[c]), "reuse")
           ELSE /\ pc' = [pc EXCEPT ![c] = "failed"]
                /\ userLock' =
                       [userLock EXCEPT ![ParentUser[r.parent]] = "free"]
                /\ UNCHANGED <<notebookCache, data, ret, path, tok>>
    /\ UNCHANGED <<minExp, nextKey>>
    /\ UNCHANGED <<verifierVars, codeVars, providerVars, pureVars>>
    /\ UNCHANGED <<now, stores, internalCache, req, sameTick>>

\* data = await get_data_by_key(key); if data: return data.token, which
\* get_notebook_token stores in the cache and returns; else a token is created
NotebookKvGet(c) ==
    /\ pc[c] = "kvget"
    /\ req[c].kind = "notebook"
    /\ LET r == req[c]
       IN  IF KvHas(tok[c])
           THEN /\ notebookCache' =
                       [notebookCache EXCEPT ![NotebookKey(r)] = tok[c]]
                /\ Return(c, KvData(tok[c]), "reuse")
                /\ UNCHANGED nextKey
           ELSE /\ StartMint(c, "notebook", ParentScopes[r.parent])
                /\ UNCHANGED <<notebookCache, ret, path, userLock>>
    /\ (pc'[c] = "store_kv" => UNCHANGED tok)
    /\ UNCHANGED minExp
    /\ UNCHANGED <<verifierVars, codeVars, providerVars, pureVars>>
    /\ UNCHANGED <<now, stores, internalCache, req, sameTick>>

\* _create_notebook_token going on to the relational write with the K/V
\* record not written
NotebookStoreKvSkipped(c) ==
    /\ pc[c] = "store_kv"
    /\ req[c].kind = "notebook"
    /\ pc' = [pc EXCEPT ![c] = "store_db"]
    /\ UNCHANGED <<verifierVars, codeVars, providerVars, pureVars>>
    /\ UNCHANGED <<now, stores, caches, userLock, nextKey, req, tok,
                   data, minExp, ret, path, sameTick>>

\* await self._token_redis_store.store_data(data)
NotebookStoreKv(c) ==
    /\ pc[c] = "store_kv"
    /\ req[c].kind = "notebook"
    /\ kv' = kv \cup {data[c]}
    /\ pc' = [pc EXCEPT ![c] = "store_db"]
    /\ UNCHANGED <<verifierVars, codeVars, providerVars, pureVars>>
    /\ UNCHANGED <<now, db, history, caches, userLock, nextKey, req, tok,
                   data, minExp, ret, path, sameTick>>

\* await self._token_db_store.add(data, parent=token_data.token.key)
NotebookStoreDb(c) ==
    /\ pc[c] = "store_db"
    /\ req[c].kind = "notebook"
    /\ db' = db \cup {DbRow(req[c], data[c])}
    /\ pc' = [pc EXCEPT ![c] = "store_hist"]
    /\ UNCHANGED <<verifierVars, codeVars, providerVars, pureVars>>
    /\ UNCHANGED <<now, kv, history, caches, userLock, nextKey, req, tok,
                   data, minExp, ret, path, sameTick>>

\* await self._token_change_store.add(history_entry); return token, which
\* get_notebook_token stores in the cache and returns
NotebookStoreHist(c) ==
    /\ pc[c] = "store_hist"
    /\ req[c].kind = "notebook"
    /\ history' = history \cup {HistoryEntry(req[c], data[c])}
    /\ notebookCache' =
           [notebookCache EXCEPT ![NotebookKey(req[c])] = data[c].key]
    /\ Return(c, data[c], "mint")
    /\ UNCHANGED <<verifierVars, codeVars, providerVars, pureVars>>
    /\ UNCHANGED <<now, kv, db, internalCache, nextKey, req, minExp,
                   sameTick>>

(***************************************************************************)
(* The environment of the cache service.                                   *)
(***************************************************************************)
\* TokenCacheService.clear(): both caches are emptied
Clear ==
    /\ internalCache' = [k \in InternalKeys |-> None]
    /\ notebookCache' = [k \in NotebookKeys |-> None]
    /\ \/ internalCache # internalCache'
       \/ notebookCache # notebookCache'
    /\ UNCHANGED <<verifierVars, codeVars, providerVars, pureVars>>
    /\ UNCHANGED <<now, stores, userLock, nextKey, pc, req, tok, data,
                   minExp, ret, path, sameTick>>

\* The clock advances; K/V entries carry a TTL matching their expires.
\* Calls that returned or failed at the earlier clock reading are forgotten.
Tick ==
    /\ now < MaxTime
    /\ now' = now + 1
    /\ kv' = {r \in kv : r.expires = None \/ r.expires > now + 1}
    /\ pc' = [c \in Callers |->
                IF pc[c] \in {"done", "failed"} THEN "idle" ELSE pc[c]]
    /\ req' = [c \in Callers |->
                IF pc[c] \in {"done", "failed"} THEN NoReq ELSE req[c]]
    /\ tok' = [c \in Callers |->
                IF pc[c] \in {"done", "failed"} THEN None ELSE tok[c]]
    /\ data' = [c \in Callers |->
                IF pc[c] \in {"done", "failed"} THEN NoData ELSE data[c]]
    /\ minExp' = [c \in Callers |->
                IF pc[c] \in {"done", "failed"} THEN None ELSE minExp[c]]
    /\ ret' = [c \in Callers |->
                IF pc[c] \in {"done", "failed"} THEN None ELSE ret[c]]
    /\ path' = [c \in Callers |->
                IF pc[c] \in {"done", "failed"} THEN "none" ELSE path[c]]
    /\ sameTick' = [c \in Callers |-> pc[c] \in {"idle", "done", "failed"}]
    /\ UNCHANGED <<verifierVars, codeVars, providerVars, pureVars>>
    /\ UNCHANGED <<db, history, caches, userLock, nextKey>>

\* An operation of a call raises and the lock stays with the failed call
FailKeepsLock(c) ==
    /\ InCritical(c)
    /\ pc' = [pc EXCEPT ![c] = "failed"]
    /\ UNCHANGED <<verifierVars, codeVars, providerVars, pureVars>>
    /\ UNCHANGED <<now, stores, caches, userLock, nextKey, req, tok, data,
                   minExp, ret, path, sameTick>>

\* A K/V, relational or history operation of a call raises: the exception
\* leaves "async with", which releases the lock, and reaches the caller
Fail(c) ==
    /\ InCritical(c)
    /\ pc[c] = "check" =>
           IF req[c].kind = "internal"
           THEN internalCache[InternalKey(req[c])] # None
           ELSE notebookCache[NotebookKey(req[c])] # None
    /\ pc' = [pc EXCEPT ![c] = "failed"]
    /\ userLock' = [userLock EXCEPT ![ParentUser[req[c].parent]] = "free"]
    /\ UNCHANGED <<verifierVars, codeVars, providerVars, pureVars>>
    /\ UNCHANGED <<now, stores, caches, nextKey, req, tok, data, minExp,
                   ret, path, sameTick>>

InternalStep(c) ==
    \/ InternalLock(c)
    \/ InternalCheck(c)
    \/ InternalQuery(c)
    \/ InternalKvGet(c)
    \/ InternalStoreKv(c)
    \/ InternalStoreDb(c)
    \/ InternalStoreHist(c)

NotebookStep(c) ==
    \/ NotebookLock(c)
    \/ NotebookCheck(c)
    \/ NotebookQuery(c)
    \/ NotebookKvGet(c)
    \/ NotebookStoreKv(c)
    \/ NotebookStoreDb(c)
    \/ NotebookStoreHist(c)

(***************************************************************************)
(* OIDCTokenVerifier (providers/oidc.py).                                  *)
(***************************************************************************)
\* The signing algorithm the verifier accepts
ALGORITHM == "RS256"
\* self._config.issuer
ConfigIssuer == "https://upstream.example.com/"
\* A claim, header field or JWKS entry field that is not there
Absent == "absent"

Issuers == {Absent, ConfigIssuer, "https://other.example.com/"}
KeyIds == {"k1", "k2"}
\* RSA key pairs: the n and e of a JWKS entry, the private key that signed
Materials == {"m1", "m2"}

\* The JWKS entries the upstream issuer may publish
KeyEntries ==
    {[kid |-> "k1", alg |-> "RS256", mat |-> "m1"],
     [kid |-> "k1", alg |-> "RS256", mat |-> "m2"],
     [kid |-> "k2", alg |-> "RS256", mat |-> "m2"],
     [kid |-> "k1", alg |-> "ES256", mat |-> "m1"],
     [kid |-> Absent, alg |-> "RS256", mat |-> "m1"],
     [kid |-> "k1", alg |-> Absent, mat |-> "m1"]}

\* The key set the issuer serves when the verifier is constructed
InitialJwks == <<[kid |-> "k1", alg |-> "RS256", mat |-> "m1"]>>

\* The tokens handed to verify_token: the iss claim, the kid of the header,
\* the key that signed it, and whether audience and expiry are acceptable
Tokens ==
    [kid : KeyIds \cup {Absent}, iss : Issuers, sig : Materials,
     claims : {"good", "bad"}]

\* What the discovery request may come back with
DiscoveryResponses ==
    {"jwks_uri", "empty_jwks_uri", "no_jwks_uri", "not_json", "not_200",
     "request_error"}
\* What the JWKS request may come back with
JwksResponses == {"keys", "no_keys", "not_json", "not_200", "request_error"}

VerifierInit ==
    /\ jwks = InitialJwks
    /\ vpc = "idle"
    /\ vtoken = [kid |-> Absent, iss |-> Absent, sig |-> "m1",
                 claims |-> "bad"]
    /\ vurl = "none"
    /\ vresult = "none"
    /\ vreqs = {}
    /\ okMat = "none"
    /\ vdisc = "none"

\* verify_token up to the issuer test, with the issuer test left out
CheckUnverifiedAnyIssuer(t) ==
    IF t.iss = Absent THEN "InvalidIssuerError"
    ELSE IF t.kid = Absent THEN "UnknownKeyIdError"
    ELSE "none"

\* verify_token up to the issuer test, with the kid test left out
CheckUnverifiedAnyKid(t) ==
    IF t.iss = Absent THEN "InvalidIssuerError"
    ELSE IF t.iss # ConfigIssuer THEN "InvalidIssuerError"
    ELSE "none"

\* verify_token before the key is fetched: the error raised, or "none"
CheckUnverified(t) ==
    IF t.iss = Absent THEN "InvalidIssuerError"
    ELSE IF t.kid = Absent THEN "UnknownKeyIdError"
    ELSE IF t.iss # ConfigIssuer THEN "InvalidIssuerError"
    ELSE "none"

\* The indexes of the entries of keys whose kid is key_id
Matches(keys, key_id) == {i \in 1..Len(keys) : keys[i].kid = key_id}

\* A scan that stops at the first entry whose kid is key_id
FirstMatch(keys, key_id) ==
    keys[CHOOSE i \in Matches(keys, key_id) :
             \A j \in Matches(keys, key_id) : i <= j]

\* for k in keys: if key_id == k["kid"]: key = k -- the loop does not stop at
\* a match, so the entry kept is the last one
LastMatch(keys, key_id) ==
    keys[CHOOSE i \in Matches(keys, key_id) :
             \A j \in Matches(keys, key_id) : j <= i]

\* _get_key_as_pem after the fetch: the error raised, or "none" when the key
\* of LastMatch is returned
GetKeyError(keys, key_id) ==
    IF \E i \in 1..Len(keys) : keys[i].kid = Absent THEN "KeyError"
    ELSE IF Matches(keys, key_id) = {} THEN "UnknownKeyIdError"
    ELSE IF LastMatch(keys, key_id).alg = Absent THEN "KeyError"
    ELSE IF LastMatch(keys, key_id).alg # ALGORITHM
         THEN "UnknownAlgorithmError"
    ELSE "none"

\* jwt.decode(token.encoded, key, algorithms=[ALGORITHM], audience=...)
JwtDecode(t, key) ==
    IF t.sig = key.mat /\ t.claims = "good" THEN "ok"
    ELSE "InvalidTokenError"

\* A key set kept from construction instead of the one just fetched
StartupKeys == InitialJwks

\* body["keys"] of the JWKS response
FetchedKeys == jwks

\* verify_token is entered: the unverified header and claims are examined
StartVerify(t) ==
    /\ vpc \in {"idle", "done"}
    /\ vtoken' = t
    /\ vreqs' = {}
    /\ vurl' = "none"
    /\ vdisc' = "none"
    /\ okMat' = IF vresult = "ok" THEN vtoken.sig ELSE okMat
    /\ vresult' = CheckUnverified(t)
    /\ vpc' = IF CheckUnverified(t) = "none" THEN "discovery" ELSE "done"
    /\ UNCHANGED jwks

\* verify_token is called on its own
VerifyToken(t) ==
    /\ StartVerify(t)
    /\ UNCHANGED <<cacheVars, codeVars, providerVars, pureVars>>

\* _get_jwks_uri: the discovery request returns; _get_keys picks the URL
GetJwksUri(resp) ==
    /\ vpc = "discovery"
    /\ vreqs' = vreqs \cup {"discovery"}
    /\ vdisc' = resp
    /\ IF resp \in {"no_jwks_uri", "not_json"}
       THEN /\ vresult' = "FetchKeysError"
            /\ vpc' = "done"
            /\ UNCHANGED vurl
       ELSE /\ vurl' = IF resp = "jwks_uri" THEN "discovered" ELSE "fallback"
            /\ vpc' = "jwks"
            /\ UNCHANGED vresult
    /\ UNCHANGED <<jwks, vtoken, okMat, cacheVars, codeVars, providerVars,
                   pureVars>>

\* _get_keys: the JWKS request returns; _get_key_as_pem looks the key up and
\* verify_token decodes the token with it
GetKeys(resp) ==
    /\ vpc = "jwks"
    /\ vreqs' = vreqs \cup {"jwks"}
    /\ vresult' =
          IF resp # "keys" THEN "FetchKeysError"
          ELSE IF GetKeyError(FetchedKeys, vtoken.kid) # "none"
               THEN GetKeyError(FetchedKeys, vtoken.kid)
          ELSE JwtDecode(vtoken, LastMatch(FetchedKeys, vtoken.kid))
    /\ vpc' = "done"
    /\ UNCHANGED <<jwks, vtoken, vurl, okMat, vdisc, cacheVars, codeVars,
                   providerVars, pureVars>>

\* The upstream issuer publishes one more key
AddKey(e) ==
    /\ Len(jwks) < MaxKeys
    /\ jwks' = Append(jwks, e)
    /\ UNCHANGED <<vpc, vtoken, vurl, vresult, vreqs, okMat, vdisc,
                   cacheVars, codeVars, providerVars, pureVars>>

\* The upstream issuer retires its oldest key
RetireKey ==
    /\ jwks # <<>>
    /\ jwks' = Tail(jwks)
    /\ UNCHANGED <<vpc, vtoken, vurl, vresult, vreqs, okMat, vdisc,
                   cacheVars, codeVars, providerVars, pureVars>>

(***************************************************************************)
(* The OpenID Connect authorization-code service: issue_code, redeem_code. *)
(***************************************************************************)
\* The configured clients and their secrets
Clients == [x \in {"client-1", "client-2"} |->
               IF x = "client-1" THEN "client-1-secret" ELSE "client-2-secret"]
ClientIds == {"client-1", "client-2", "some-client"}
ClientSecrets == {"client-1-secret", "client-2-secret", "some-secret"}
RedirectUris == {"https://example.com/", "https://foo.example.com/"}
SessionTokens == {"t1"}
CodeKeys == 1..MaxCodes

\* No call has been made yet
NoCall == [op |-> "none", key |-> 0, auth |-> FALSE, result |-> "none",
           prior |-> 0]

CodeInit ==
    /\ oidcKv = {}
    /\ nextCode = 1
    /\ sessions = SessionTokens
    /\ successes = [k \in CodeKeys |-> 0]
    /\ lastCall = NoCall
    /\ lastArgs = <<"none", "none", "none", "none", "none">>
    /\ callBit = 0

\* Load oidc:<code.key>
HasCode(key) == \E e \in oidcKv : e.key = key
StoredCode(key) == CHOOSE e \in oidcKv : e.key = key

\* redeem_code steps 1 and 2: the client is registered and its secret matches
ClientAuthenticates(client_id, client_secret) ==
    /\ client_id \in DOMAIN Clients
    /\ Clients[client_id] = client_secret

\* redeem_code that loads the code before it authenticates the client
RedeemResultCodeFirst(client_id, client_secret, redirect_uri, key, secretOk) ==
    IF ~HasCode(key) THEN "InvalidGrant"
    ELSE IF ~ClientAuthenticates(client_id, client_secret)
         THEN "InvalidClient"
    ELSE IF ~secretOk THEN "InvalidGrant"
    ELSE IF \/ StoredCode(key).client_id # client_id
            \/ StoredCode(key).redirect_uri # redirect_uri
         THEN "InvalidGrant"
    ELSE IF StoredCode(key).token \notin sessions THEN "InvalidGrant"
    ELSE "ok"

\* redeem_code that does not compare the envelope with its arguments
RedeemResultUnbound(client_id, client_secret, redirect_uri, key, secretOk) ==
    IF ~ClientAuthenticates(client_id, client_secret) THEN "InvalidClient"
    ELSE IF ~HasCode(key) THEN "InvalidGrant"
    ELSE IF ~secretOk THEN "InvalidGrant"
    ELSE IF StoredCode(key).token \notin sessions THEN "InvalidGrant"
    ELSE "ok"

\* redeem_code steps 1 to 6: "ok" or the error the call fails with.  A code is
\* given by its key and by whether its secret is the one issued with that key
RedeemResult(client_id, client_secret, redirect_uri, key, secretOk) ==
    IF ~ClientAuthenticates(client_id, client_secret) THEN "InvalidClient"
    ELSE IF ~HasCode(key) THEN "InvalidGrant"
    ELSE IF ~secretOk THEN "InvalidGrant"
    ELSE IF \/ StoredCode(key).client_id # client_id
            \/ StoredCode(key).redirect_uri # redirect_uri
         THEN "InvalidGrant"
    ELSE IF StoredCode(key).token \notin sessions THEN "InvalidGrant"
    ELSE "ok"

\* redeem_code that never deletes the stored code
CodesKept(client_id, client_secret, key, secretOk) == oidcKv

\* redeem_code that deletes the entry only after the client_id comparison
CodesDeletedAfterClientCheck(client_id, client_secret, key, secretOk) ==
    IF /\ ClientAuthenticates(client_id, client_secret)
       /\ HasCode(key)
       /\ secretOk
       /\ StoredCode(key).client_id = client_id
    THEN oidcKv \ {StoredCode(key)}
    ELSE oidcKv

\* redeem_code step 4: the entry is deleted once the code's secret matched
CodesAfterRedeem(client_id, client_secret, key, secretOk) ==
    IF /\ ClientAuthenticates(client_id, client_secret)
       /\ HasCode(key)
       /\ secretOk
    THEN oidcKv \ {StoredCode(key)}
    ELSE oidcKv

\* issue_code that does not look the client up
IssueCodeAnyClient(client_id, redirect_uri, token) ==
    /\ nextCode <= MaxCodes
    /\ oidcKv' = oidcKv \cup
           {[key |-> nextCode, token |-> token, client_id |-> client_id,
             redirect_uri |-> redirect_uri]}
    /\ nextCode' = nextCode + 1
    /\ lastCall' = [op |-> "issue", key |-> nextCode, auth |-> TRUE,
                    result |-> "ok", prior |-> 0]
    /\ lastArgs' = <<client_id, redirect_uri, "none", "none", "none">>
    /\ callBit' = 1 - callBit
    /\ UNCHANGED <<sessions, successes, cacheVars, verifierVars, providerVars,
                   pureVars>>

\* issue_code(client_id, redirect_uri, token)
IssueCode(client_id, redirect_uri, token) ==
    /\ nextCode <= MaxCodes
    /\ IF client_id \in DOMAIN Clients
       THEN /\ oidcKv' = oidcKv \cup
                   {[key |-> nextCode, token |-> token,
                     client_id |-> client_id,
                     redirect_uri |-> redirect_uri]}
            /\ nextCode' = nextCode + 1
            /\ lastCall' = [op |-> "issue", key |-> nextCode, auth |-> TRUE,
                            result |-> "ok", prior |-> 0]
       ELSE /\ lastCall' = [op |-> "issue", key |-> 0, auth |-> FALSE,
                            result |-> "UnauthorizedClient", prior |-> 0]
            /\ UNCHANGED <<oidcKv, nextCode>>
    /\ lastArgs' = <<client_id, redirect_uri, "none", "none", "none">>
    /\ callBit' = 1 - callBit
    /\ UNCHANGED <<sessions, successes, cacheVars, verifierVars, providerVars,
                   pureVars>>

\* redeem_code(client_id, client_secret, redirect_uri, code)
RedeemCode(client_id, client_secret, redirect_uri, key, secretOk) ==
    LET result == RedeemResult(client_id, client_secret, redirect_uri, key,
                               secretOk)
    IN  /\ oidcKv' = CodesAfterRedeem(client_id, client_secret, key, secretOk)
        /\ successes' =
              IF result = "ok" /\ successes[key] < 2
              THEN [successes EXCEPT ![key] = @ + 1]
              ELSE successes
        /\ lastCall' =
              [op |-> "redeem", key |-> key,
               auth |-> ClientAuthenticates(client_id, client_secret),
               result |-> result, prior |-> successes[key]]
        /\ lastArgs' =
              IF HasCode(key)
              THEN <<client_id, redirect_uri, StoredCode(key).client_id,
                     StoredCode(key).redirect_uri,
                     IF secretOk THEN "yes" ELSE "no">>
              ELSE <<client_id, redirect_uri, "none", "none",
                     IF secretOk THEN "yes" ELSE "no">>
        /\ callBit' = 1 - callBit
        /\ UNCHANGED <<nextCode, sessions, cacheVars, verifierVars,
                       providerVars, pureVars>>

\* The stored code reaches its lifetime and the K/V store drops it
ExpireCode(key) ==
    /\ HasCode(key)
    /\ oidcKv' = oidcKv \ {StoredCode(key)}
    /\ UNCHANGED <<nextCode, sessions, successes, lastCall, lastArgs,
                   callBit, cacheVars, verifierVars, providerVars, pureVars>>

\* A session token expires or is revoked
ExpireSession(token) ==
    /\ token \in sessions
    /\ sessions' = sessions \ {token}
    /\ UNCHANGED <<oidcKv, nextCode, successes, lastCall, lastArgs,
                   callBit, cacheVars, verifierVars, providerVars, pureVars>>

(***************************************************************************)
(* OIDCProvider.create_user_info (providers/oidc.py).                      *)
(***************************************************************************)
\* The HTTP statuses the token endpoint may answer with
Statuses == {200, 201, 302, 400}
\* The bodies it may send: not JSON, or a JSON object with "error" and
\* "error_description", with "error" alone, with "id_token", or with none
Bodies == {"not_json", "error_described", "error_only", "id_token",
           "no_id_token"}

\* r.raise_for_status(): raises for 4xx and 5xx, never for 2xx; whether it
\* raises for 3xx depends on the httpx release (strict)
RaisesForStatus(status, strict) ==
    \/ status >= 400
    \/ status >= 300 /\ strict

\* The errors that are jwt.InvalidTokenError
JwtInvalidTokenErrors == {"InvalidIssuerError", "InvalidTokenError"}
\* The errors that are gafaelfawr.exceptions.VerifyTokenError
VerifyTokenErrors ==
    {"FetchKeysError", "UnknownKeyIdError", "UnknownAlgorithmError",
     "MissingClaimsError"}

ProviderInit ==
    /\ ppc = "idle"
    /\ presp = <<0, "none">>
    /\ phanded = FALSE
    /\ presult = "none"

\* create_user_info from the response of the token endpoint up to the
\* "id_token" test: the error raised, or "verify" when the id_token goes on
TokenResponse(status, body, strict) ==
    IF body = "not_json"
    THEN IF status # 200
         THEN IF RaisesForStatus(status, strict) THEN "HTTPStatusError"
              ELSE "UnboundLocalError"
         ELSE "OIDCError"
    ELSE IF status # 200 /\ body \in {"error_described", "error_only"}
         THEN IF body = "error_described" THEN "OIDCError" ELSE "KeyError"
    ELSE IF status # 200 /\ RaisesForStatus(status, strict)
         THEN "HTTPStatusError"
    ELSE IF body # "id_token" THEN "OIDCError"
    ELSE "verify"

\* except (jwt.InvalidTokenError, VerifyTokenError) as e: raise OIDCError(msg)
WrapError(e) ==
    IF e \in JwtInvalidTokenErrors \cup VerifyTokenErrors THEN "OIDCError"
    ELSE e

\* create_user_info(code, state, session): the token endpoint answers with
\* status and body; an id_token that gets through is handed to verify_token
CreateUserInfo(status, body, strict, t) ==
    /\ ppc \in {"idle", "done"}
    /\ presp' = <<status, body>>
    /\ IF TokenResponse(status, body, strict) = "verify"
       THEN /\ StartVerify(t)
            /\ phanded' = TRUE
            /\ ppc' = "verifying"
            /\ presult' = "none"
       ELSE /\ phanded' = FALSE
            /\ ppc' = "done"
            /\ presult' = TokenResponse(status, body, strict)
            /\ UNCHANGED verifierVars
    /\ UNCHANGED <<cacheVars, codeVars, pureVars>>

\* verify_token has ended: its token goes to get_user_info_from_oidc_token,
\* its error goes through the except clause
FinishUserInfo ==
    /\ ppc = "verifying"
    /\ vpc = "done"
    /\ presult' = IF vresult = "ok" THEN "user_info" ELSE WrapError(vresult)
    /\ ppc' = "done"
    /\ UNCHANGED <<presp, phanded, cacheVars, verifierVars, codeVars,
                   pureVars>>

(***************************************************************************)
(* OIDCProvider.get_redirect_url (providers/oidc.py).                      *)
(***************************************************************************)
\* The most entries config.login_params has
MaxParams == 2

\* self._config.login_url
LoginUrl == "https://upstream.example.com/login"
\* The names and values config.login_params may use
LoginParamNames == {"response_type", "scope", "skin", "prompt"}
LoginParamValues == {"token", "a b"}
\* The state strings given to get_redirect_url
States == {"s1", "s2"}

\* The login_params maps: (name, value) pairs in order, no name twice
LoginParamMaps ==
    {m \in UNION {[1..n -> LoginParamNames \X LoginParamValues] :
                     n \in 0..MaxParams} :
        \A i \in 1..Len(m), j \in 1..Len(m) : m[i][1] = m[j][1] => i = j}

\* params = {"response_type": "code", "client_id": ..., "redirect_uri": ...,
\*           "scope": " ".join(scopes), "state": state}
DefaultParams(state) ==
    << <<"response_type", "code">>, <<"client_id", "gafaelfawr">>,
       <<"redirect_uri", "https://example.com/login">>,
       <<"scope", "openid email">>, <<"state", state>> >>

\* d[name] = value: an existing name keeps its place, a new one goes last
SetParam(params, name, value) ==
    IF \E i \in 1..Len(params) : params[i][1] = name
    THEN [i \in 1..Len(params) |->
             IF params[i][1] = name THEN <<name, value>> ELSE params[i]]
    ELSE Append(params, <<name, value>>)

\* params.update(self._config.login_params)
RECURSIVE UpdateParams(_, _)
UpdateParams(params, upd) ==
    IF upd = <<>> THEN params
    ELSE UpdateParams(SetParam(params, Head(upd)[1], Head(upd)[2]), Tail(upd))

\* quote_plus of urlencode: a space becomes "+", ":" and "/" are escaped
Quote(v) ==
    IF v = "openid email" THEN "openid+email"
    ELSE IF v = "a b" THEN "a+b"
    ELSE IF v = "https://example.com/login"
         THEN "https%3A%2F%2Fexample.com%2Flogin"
    ELSE v

\* urlencode(params): the name=value parts, in order
UrlEncode(params) ==
    [i \in 1..Len(params) |-> <<Quote(params[i][1]), Quote(params[i][2])>>]

\* The value the query string of url gives to name
QueryValue(url, name) ==
    LET query == url[2]
    IN  query[CHOOSE i \in 1..Len(query) : query[i][1] = name][2]

\* The params dict get_redirect_url encodes
RedirectParams(state) == UpdateParams(DefaultParams(state), loginParams)

\* get_redirect_url(state): f"{login_url}?{urlencode(params)}"
GetRedirectUrl(state) ==
    /\ redirectUrl' = <<LoginUrl, UrlEncode(RedirectParams(state))>>
    /\ UNCHANGED <<loginParams, codecVars, cacheVars, verifierVars, codeVars,
                   providerVars>>

UrlInit ==
    /\ loginParams = <<>>
    /\ redirectUrl = <<>>

\* Every configuration of login_params
UrlDrawn ==
    /\ loginParams \in LoginParamMaps
    /\ redirectUrl = <<>>

(***************************************************************************)
(* The Token codec: Token.from_str and str(token) (models/token.py).       *)
(***************************************************************************)
\* The length of a key and of a secret (22 in the program)
KeyLen == 2

\* Strings are sequences of characters
TokenPrefix == <<"g", "t", "-">>
\* The url-safe base64 alphabet, and the characters a half is drawn from
Base64Chars == {"A", "_"}
HalfChars == Base64Chars \cup {"!"}

\* The sequences over chars of the lengths 0 to n
StringsUpTo(chars, n) == UNION {[1..k -> chars] : k \in 0..n}

\* The strings handed to from_str: a prefix or none, two halves that may be
\* empty, too long or hold another character, a dot or none, a further part
TokenStrings ==
    {p \o k \o d \o h \o x :
        p \in {<<>>, TokenPrefix, <<"g", "t">>, <<"g", "c", "-">>},
        k \in StringsUpTo(HalfChars, KeyLen + 1),
        d \in {<<>>, <<".">>},
        h \in StringsUpTo(HalfChars, KeyLen + 1),
        x \in {<<>>, <<".", "!">>}}

\* A key or a secret: KeyLen characters of the url-safe base64 alphabet
IsHalf(h) == Len(h) = KeyLen /\ \A i \in 1..Len(h) : h[i] \in Base64Chars

\* str(token): gt-<key>.<secret>
TokenStr(key, secret) == TokenPrefix \o key \o <<".">> \o secret

\* What from_str gives: the key and secret, or the error
Parsed(key, secret) == <<"ok", key, secret, TokenStr(key, secret)>>
Rejected == <<"InvalidTokenError", <<>>, <<>>, <<>>>>

\* from_str that splits at the first dot and tests nothing else
FromStrUnchecked(str) ==
    IF Len(str) < 3 \/ SubSeq(str, 1, 3) # TokenPrefix THEN Rejected
    ELSE LET rest == SubSeq(str, 4, Len(str))
             dots == {i \in 1..Len(rest) : rest[i] = "."}
         IN  IF dots = {} THEN Rejected
             ELSE LET dot == CHOOSE i \in dots : \A j \in dots : i <= j
                  IN  Parsed(SubSeq(rest, 1, dot - 1),
                             SubSeq(rest, dot + 1, Len(rest)))

\* Token.from_str(str): the prefix, one dot, two halves of the right length
\* and alphabet; every other shape is rejected
FromStr(str) ==
    IF Len(str) < 3 \/ SubSeq(str, 1, 3) # TokenPrefix THEN Rejected
    ELSE LET rest == SubSeq(str, 4, Len(str))
             dots == {i \in 1..Len(rest) : rest[i] = "."}
         IN  IF dots = {} THEN Rejected
             ELSE LET dot == CHOOSE i \in dots : \A j \in dots : i <= j
                      key == SubSeq(rest, 1, dot - 1)
                      secret == SubSeq(rest, dot + 1, Len(rest))
                  IN  IF IsHalf(key) /\ IsHalf(secret)
                      THEN Parsed(key, secret)
                      ELSE Rejected

\* token = Token.from_str(s); str(token)
ParseToken ==
    /\ tokOut = <<>>
    /\ tokOut' = FromStr(tokIn)
    /\ UNCHANGED <<tokIn, urlVars, cacheVars, verifierVars, codeVars,
                   providerVars>>

\* Every string of TokenStrings
CodecDrawn ==
    /\ tokIn \in TokenStrings
    /\ tokOut = <<>>

CodecInit ==
    /\ tokIn = <<>>
    /\ tokOut = <<>>

Init ==
    /\ CacheInit /\ VerifierInit /\ CodeInit /\ ProviderInit
    /\ UrlInit /\ CodecInit

\* Concurrent callers of one user whose parent token does not expire
Next ==
    \/ \E c \in Callers, p \in Parents :
          CallInternal(c, p, None, "s1", {"a"})
    \/ \E c \in Callers, p \in Parents : CallNotebook(c, p, None)
    \/ \E c \in Callers : InternalStep(c)
    \/ \E c \in Callers : NotebookStep(c)
    \/ Clear
    \/ Tick

\* The cache service with stores that do not fail
Spec == Init /\ [][Next]_vars

\* The same callers with K/V, relational and history operations that may raise
NextFail ==
    \/ \E c \in Callers, p \in Parents :
          CallInternal(c, p, None, "s1", {"a"})
    \/ \E c \in Callers, p \in Parents : CallNotebook(c, p, None)
    \/ \E c \in Callers : InternalStep(c)
    \/ \E c \in Callers : NotebookStep(c)
    \/ \E c \in Callers : Fail(c)
    \/ Tick

SpecFail == Init /\ [][NextFail]_vars

\* The calls that have been made and have not ended
InFlight == {c \in Callers : pc[c] \notin {"idle", "done", "failed"}}

\* Callers whose operations may raise, at one clock reading; a call is made
\* only while a key is left for every call in flight
NextLive ==
    \/ \E c \in Callers, p \in Parents :
          /\ nextKey + Cardinality(InFlight) <= MaxTokens
          /\ CallInternal(c, p, None, "s1", {"a"})
    \/ \E c \in Callers, p \in Parents :
          /\ nextKey + Cardinality(InFlight) <= MaxTokens
          /\ CallNotebook(c, p, None)
    \/ \E c \in Callers : InternalStep(c)
    \/ \E c \in Callers : NotebookStep(c)
    \/ \E c \in Callers : Fail(c)

\* The event loop runs every call that can take a step, and the lock wakes
\* its waiters in turn, so no waiter is passed over for ever
LiveFairness ==
    \A c \in Callers :
        SF_vars(InternalStep(c) \/ NotebookStep(c) \/ Fail(c))

SpecLive == Init /\ [][NextLive]_vars /\ LiveFairness

\* One caller whose parent token's expiration differs from call to call
NextSeq ==
    \/ \E p \in Parents, pe \in ParentExpiries :
          CallInternal("c1", p, pe, "s1", {"a"})
    \/ \E p \in Parents, pe \in ParentExpiries : CallNotebook("c1", p, pe)
    \/ InternalStep("c1")
    \/ NotebookStep("c1")
    \/ Tick

SpecSeq == Init /\ [][NextSeq]_vars

\* _is_token_valid applied to a cached token whose K/V record is drawn from
\* StoredScopeSets and StoredExpiries, for each requested scope set
ValidCacheInit ==
    /\ now = 0
    /\ \E sc \in StoredScopeSets, e \in StoredExpiries, rq \in ScopeSets :
          LET r == [scopes |-> sc, kind |-> "internal", parent |-> "p1",
                    pexp |-> None, service |-> "s1"]
              d == [key |-> 1, username |-> "u1", ttype |-> "internal",
                    scopes |-> sc, created |-> 0, expires |-> e]
          IN  /\ kv = {d}
              /\ db = {DbRow(r, d)}
              /\ history = {HistoryEntry(r, d)}
              /\ internalCache =
                     [k \in InternalKeys |->
                         IF k = <<"p1", None, "s1", rq>> THEN 1 ELSE None]
    /\ notebookCache = [k \in NotebookKeys |-> None]
    /\ userLock = [u \in Users |-> "free"]
    /\ nextKey = 2
    /\ pc = [c \in Callers |-> "idle"]
    /\ req = [c \in Callers |-> NoReq]
    /\ tok = [c \in Callers |-> None]
    /\ data = [c \in Callers |-> NoData]
    /\ minExp = [c \in Callers |-> None]
    /\ ret = [c \in Callers |-> None]
    /\ path = [c \in Callers |-> "none"]
    /\ sameTick = [c \in Callers |-> TRUE]

NextValid ==
    \/ \E p \in Parents, sc \in ScopeSets :
          CallInternal("c1", p, None, "s1", sc)
    \/ InternalStep("c1")
    \/ Clear
    \/ Tick

ValidInit ==
    /\ ValidCacheInit /\ VerifierInit /\ CodeInit /\ ProviderInit
    /\ UrlInit /\ CodecInit

SpecValid == ValidInit /\ [][NextValid]_vars

\* verify_token against an upstream issuer that rotates its keys
NextVerify ==
    \/ \E t \in Tokens : VerifyToken(t)
    \/ \E resp \in DiscoveryResponses : GetJwksUri(resp)
    \/ \E resp \in JwksResponses : GetKeys(resp)
    \/ \E e \in KeyEntries : AddKey(e)
    \/ RetireKey

SpecVerify == Init /\ [][NextVerify]_vars

\* issue_code and redeem_code calls, one after another
NextCode ==
    \/ \E client_id \in ClientIds, redirect_uri \in RedirectUris,
          token \in SessionTokens :
          IssueCode(client_id, redirect_uri, token)
    \/ \E client_id \in ClientIds, client_secret \in ClientSecrets,
          redirect_uri \in RedirectUris, key \in CodeKeys,
          secretOk \in BOOLEAN :
          RedeemCode(client_id, client_secret, redirect_uri, key, secretOk)
    \/ \E key \in CodeKeys : ExpireCode(key)
    \/ \E token \in SessionTokens : ExpireSession(token)

SpecCode == Init /\ [][NextCode]_vars

\* The id_tokens the token endpoint hands out: signed with one key, with
\* every header and issuer, and one whose audience or expiry is wrong
LoginTokens ==
    {t \in Tokens :
        /\ t.sig = "m1"
        /\ t.claims = "good" \/ (t.kid = "k1" /\ t.iss = ConfigIssuer)}

\* The calls of create_user_info that differ in what they do: the httpx
\* release matters for a 3xx status only, the id_token only when it is
\* handed to verify_token
LoginInputs ==
    {i \in Statuses \X Bodies \X BOOLEAN \X LoginTokens :
        /\ i[1] \in 300..399 \/ i[3]
        /\ \/ TokenResponse(i[1], i[2], i[3]) = "verify"
           \/ i[4] = [kid |-> "k1", iss |-> ConfigIssuer, sig |-> "m1",
                      claims |-> "good"]}

\* The JWKS entries the upstream issuer adds while users log in
LoginKeyEntries == {e \in KeyEntries : e.mat = "m1" /\ e # InitialJwks[1]}

\* create_user_info calls, one after another, against an upstream issuer
\* that rotates its keys
NextLogin ==
    \/ \E i \in LoginInputs : CreateUserInfo(i[1], i[2], i[3], i[4])
    \/ \E resp \in DiscoveryResponses : GetJwksUri(resp)
    \/ \E resp \in JwksResponses : GetKeys(resp)
    \/ FinishUserInfo
    \/ \E e \in LoginKeyEntries : AddKey(e)
    \/ RetireKey

SpecLogin == Init /\ [][NextLogin]_vars

\* get_redirect_url under every configuration of login_params
RedirectInit ==
    /\ CacheInit /\ VerifierInit /\ CodeInit /\ ProviderInit
    /\ UrlDrawn /\ CodecInit

NextRedirect == \E state \in States : GetRedirectUrl(state)

SpecRedirect == RedirectInit /\ [][NextRedirect]_vars

\* The expiration of the parent token of the calls whose writes may fail
CrashExpiries == {3}

\* One caller, a parent that expires, and K/V, relational and history
\* operations that may raise between the writes
NextCrash ==
    \/ \E p \in Parents, pe \in CrashExpiries :
          CallInternal("c1", p, pe, "s1", {"a"})
    \/ \E p \in Parents, pe \in CrashExpiries : CallNotebook("c1", p, pe)
    \/ InternalStep("c1")
    \/ NotebookStep("c1")
    \/ Fail("c1")
    \/ Tick

SpecCrash == Init /\ [][NextCrash]_vars

\* _is_token_valid as both get_internal_token (with scopes) and
\* get_notebook_token (without) call it, on the drawn cached token and on
\* the notebook token the caller is issued
NextPolicy ==
    \/ \E p \in Parents, sc \in ScopeSets :
          CallInternal("c1", p, None, "s1", sc)
    \/ \E p \in Parents : CallNotebook("c1", p, None)
    \/ InternalStep("c1")
    \/ NotebookStep("c1")
    \/ Clear
    \/ Tick

SpecPolicy == ValidInit /\ [][NextPolicy]_vars

\* One caller that asks for internal tokens of every requested scope set,
\* and for notebook tokens, starting with empty stores and caches
NextScopes ==
    \/ \E p \in Parents, sc \in ScopeSets :
          CallInternal("c1", p, None, "s1", sc)
    \/ \E p \in Parents : CallNotebook("c1", p, None)
    \/ InternalStep("c1")
    \/ NotebookStep("c1")
    \/ Clear
    \/ Tick

SpecScopes == Init /\ [][NextScopes]_vars

\* Token.from_str applied to every string of TokenStrings
CodecSpecInit ==
    /\ CacheInit /\ VerifierInit /\ CodeInit /\ ProviderInit
    /\ UrlInit /\ CodecDrawn

NextCodec == ParseToken

SpecCodec == CodecSpecInit /\ [][NextCodec]_vars

(***************************************************************************)
(* Properties of the token cache service.                                  *)
(***************************************************************************)
\* The callers that are writing a new token to the stores
InMint(c) == pc[c] \in {"store_kv", "store_db", "store_hist"}

\* Two distinct callers made the same internal-token request and both calls
\* began and returned at one clock reading
SameInstantCalls(c, d) ==
    /\ c # d
    /\ pc[c] = "done" /\ pc[d] = "done"
    /\ sameTick[c] /\ sameTick[d]
    /\ req[c].kind = "internal"
    /\ req[c] = req[d]

\* The history entry h records a token minted for the request of caller c
\* at the clock reading at which c is minting
SameMinting(h, c) ==
    /\ h.parent = req[c].parent
    /\ h.ttype = req[c].kind
    /\ h.service = req[c].service
    /\ h.scopes = req[c].scopes
    /\ h.event_time = data[c].created

\* C1: concurrent get_internal_token calls with equal username, parent,
\* service and scopes that run at one clock reading return the same token,
\* at most one of them mints, and the stores get at most one new token for
\* the miss: no two history entries, and no two mintings in progress or
\* recorded, are for the same request at the same clock reading, and every
\* K/V record belongs to such a minting.
C1_OneMintPerMiss ==
    /\ \A c, d \in Callers :
          SameInstantCalls(c, d) =>
              /\ ret[c] = ret[d]
              /\ ~(path[c] = "mint" /\ path[d] = "mint")
    /\ \A h1, h2 \in history :
          (/\ h1.parent = h2.parent /\ h1.ttype = h2.ttype
           /\ h1.service = h2.service /\ h1.scopes = h2.scopes
           /\ h1.event_time = h2.event_time) => h1.token = h2.token
    /\ \A c \in Callers : \A h \in history :
          (InMint(c) /\ SameMinting(h, c)) => h.token = data[c].key
    /\ \A c, d \in Callers :
          (/\ InMint(c) /\ InMint(d)
           /\ req[c] = req[d]
           /\ data[c].created = data[d].created) => c = d
    /\ \A r \in kv :
          \/ \E h \in history : h.token = r.key /\ h.event_time = r.created
          \/ \E c \in Callers : InMint(c) /\ data[c] = r

\* Two callers made the same request at one clock reading; one minted the
\* token and the other was given it
C1_Witness ==
    \E c, d \in Callers :
        /\ SameInstantCalls(c, d)
        /\ path[c] = "mint"
        /\ path[d] # "mint"
        /\ ret[c] = ret[d]

C6_NotAfterParent ==
    \A c \in Callers :
        (pc[c] = "done" /\ req[c].pexp # None) =>
            data[c].expires <= req[c].pexp

\* C7: once no issuance is in progress, every child token in the K/V store
\* has its "create" entry in the change history.
C7_NoUnauditedToken ==
    (\A c \in Callers : ~InMint(c)) =>
        \A r \in kv :
            \E h \in history : h.token = r.key /\ h.action = "create"

\* C5: a token that get_internal_token returns from the in-memory cache has
\* stored scopes that are a subset of the requested scopes; a cached token
\* whose stored scopes are not is never returned from the cache.
C5_ScopeSubset ==
    \A c \in Callers :
        (pc[c] = "done" /\ req[c].kind = "internal" /\ path[c] = "cache") =>
            data[c].scopes \subseteq req[c].scopes

\* The cached token of the request is live and young enough, its stored
\* scopes are not within the requested ones, and the call has gone on to the
\* issuance path
C5_Witness ==
    \E c \in Callers :
        /\ pc[c] = "query" /\ req[c].kind = "internal"
        /\ internalCache[InternalKey(req[c])] # None
        /\ IsTokenValidNoScopes(internalCache[InternalKey(req[c])],
                                req[c].scopes, TRUE)
        /\ ~(KvData(internalCache[InternalKey(req[c])]).scopes
                \subseteq req[c].scopes)

\* The history entries of the internal tokens issued before call c for the
\* parent, service and scopes of call c
PriorIssued(c) ==
    {h \in history :
        /\ h.ttype = "internal"
        /\ h.parent = req[c].parent
        /\ h.service = req[c].service
        /\ h.scopes = req[c].scopes
        /\ ~(path[c] = "mint" /\ h.token = ret[c])}

\* Strictly more than half of the token's lifetime has elapsed
HalfElapsed(h) == 2 * (now - h.event_time) > h.expires - h.event_time

\* The call returned a token it issued itself: one new K/V entry and one new
\* history entry, under a key no earlier token has
NewlyIssued(c) ==
    /\ path[c] = "mint"
    /\ \A h \in PriorIssued(c) : h.token # ret[c]
    /\ KvHas(ret[c])
    /\ \E h \in history :
          /\ h.token = ret[c]
          /\ h.event_time = now
          /\ \A g \in history : g.token = ret[c] => g = h

\* C18 as stated: once strictly more than half of the lifetime of the
\* internal tokens issued for a (parent, service, scopes) has elapsed, the
\* next get_internal_token for them returns a newly issued token, whatever
\* the parent's expiry is.
C18_AlwaysNewAfterHalfLife ==
    \A c \in Callers :
        (/\ pc[c] = "done" /\ req[c].kind = "internal" /\ sameTick[c]
         /\ PriorIssued(c) # {}
         /\ \A h \in PriorIssued(c) : HalfElapsed(h)) =>
            NewlyIssued(c)

\* C18 amended: once strictly more than half of the lifetime of the internal
\* tokens issued for a (parent, service, scopes) has elapsed, the next
\* get_internal_token for them returns a newly issued token with a different
\* key and adds one K/V entry and one history entry, for every parent that
\* has no expiry or expires at now + token_lifetime/2 or later.
C18_NewAfterHalfLife ==
    \A c \in Callers :
        (/\ pc[c] = "done" /\ req[c].kind = "internal" /\ sameTick[c]
         /\ PriorIssued(c) # {}
         /\ \A h \in PriorIssued(c) : HalfElapsed(h)
         /\ \/ req[c].pexp = None
            \/ 2 * req[c].pexp >= 2 * now + TokenLifetime) =>
            NewlyIssued(c)

\* A parent with an expiry asked again after more than half of the lifetime
\* of its internal token had elapsed, and got a newly issued one
C18_Witness ==
    \E c \in Callers :
        /\ pc[c] = "done" /\ req[c].kind = "internal" /\ sameTick[c]
        /\ PriorIssued(c) # {}
        /\ \A h \in PriorIssued(c) : HalfElapsed(h)
        /\ req[c].pexp # None
        /\ 2 * req[c].pexp >= 2 * now + TokenLifetime
        /\ NewlyIssued(c)

\* C19: the per-user lock is released on every exit path: it is never held
\* by a call that has failed or returned, and every caller waiting for the
\* lock of a user eventually acquires it, also after another call of that
\* user failed at a K/V, relational or history operation.
C19_LockReleased ==
    /\ [](\A u \in Users :
             userLock[u] # "free" => InCritical(userLock[u]))
    /\ \A c \in Callers :
          (pc[c] = "lock") ~> (userLock[ParentUser[req[c].parent]] = c)

\* A call failed and another caller of the same user holds the lock
C19_Witness ==
    \E c \in Callers, d \in Callers :
        /\ c # d
        /\ pc[c] = "failed"
        /\ ParentUser[req[c].parent] = ParentUser[req[d].parent]
        /\ userLock[ParentUser[req[d].parent]] = d

(***************************************************************************)
(* Properties of the authorization-code service.                           *)
(***************************************************************************)
\* C4 as stated: at most one redeem_code call per code succeeds, the stored
\* code is gone after a success, and every later redeem_code with that code
\* fails with InvalidGrant.
C4_LaterAlwaysInvalidGrant ==
    /\ \A k \in CodeKeys : successes[k] <= 1
    /\ \A k \in CodeKeys : successes[k] >= 1 => ~HasCode(k)
    /\ (lastCall.op = "redeem" /\ lastCall.prior >= 1) =>
           lastCall.result = "InvalidGrant"

\* C4 amended: at most one redeem_code call per code succeeds, the stored
\* code is gone after a success, and every later redeem_code with that code
\* fails: with InvalidGrant when the client authenticates, with InvalidClient
\* when client_id or client_secret is wrong.
C4_OneShot ==
    /\ \A k \in CodeKeys : successes[k] <= 1
    /\ \A k \in CodeKeys : successes[k] >= 1 => ~HasCode(k)
    /\ (lastCall.op = "redeem" /\ lastCall.prior >= 1) =>
           lastCall.result =
               IF lastCall.auth THEN "InvalidGrant" ELSE "InvalidClient"

\* A code that was redeemed is presented again by an authenticated client
\* and refused
C4_Witness ==
    /\ lastCall.op = "redeem"
    /\ lastCall.prior = 1
    /\ lastCall.auth
    /\ lastCall.result = "InvalidGrant"

\* C15: redeem_code authenticates the client before it looks at the code: a
\* call whose client_id is not registered or whose client_secret is not the
\* registered one fails with InvalidClient whatever the code is (stored,
\* unknown or already redeemed), and leaves the stored codes as they were.
C15_ClientBeforeCode ==
    [][(callBit' # callBit /\ lastCall'.op = "redeem") =>
          /\ lastArgs'[1] \notin DOMAIN Clients => ~lastCall'.auth
          /\ ~lastCall'.auth =>
                /\ lastCall'.result = "InvalidClient"
                /\ oidcKv' = oidcKv
                /\ successes' = successes]_vars

\* A stored code was presented with a wrong client_id or client_secret: the
\* call failed with InvalidClient and the code is still stored
C15_Witness ==
    /\ lastCall.op = "redeem"
    /\ ~lastCall.auth
    /\ lastCall.result = "InvalidClient"
    /\ lastArgs[3] # "none"
    /\ HasCode(lastCall.key)

\* C16: a code is bound to the client and the redirect URI it was issued
\* for: a redeem_code call of an authenticated client succeeds only if its
\* client_id and redirect_uri are those stored by issue_code, and an unknown
\* code, another registered client or another redirect_uri each fail with
\* InvalidGrant and return no ID token.
C16_BoundToClientAndRedirect ==
    (lastCall.op = "redeem" /\ lastCall.auth) =>
        /\ lastCall.result = "ok" =>
              /\ lastArgs[3] = lastArgs[1]
              /\ lastArgs[4] = lastArgs[2]
        /\ (lastArgs[3] # lastArgs[1] \/ lastArgs[4] # lastArgs[2]) =>
              lastCall.result = "InvalidGrant"

\* A code issued to one registered client was presented by another
\* registered client with its own secret, and refused with InvalidGrant
C16_Witness ==
    /\ lastCall.op = "redeem"
    /\ lastCall.auth
    /\ lastArgs[3] \in DOMAIN Clients
    /\ lastArgs[3] # lastArgs[1]
    /\ lastCall.result = "InvalidGrant"

\* C17: issue_code with a client_id that is not configured fails with
\* UnauthorizedClient and stores nothing; with a configured client_id it
\* stores exactly one new entry, under the key of the code, that carries the
\* client_id, the redirect_uri and the session token.
C17_IssueCode ==
    [][(callBit' # callBit /\ lastCall'.op = "issue") =>
          IF lastArgs'[1] \notin DOMAIN Clients
          THEN /\ lastCall'.result = "UnauthorizedClient"
               /\ oidcKv' = oidcKv
          ELSE /\ lastCall'.result = "ok"
               /\ \E e \in oidcKv' :
                     /\ oidcKv' = oidcKv \cup {e}
                     /\ \A f \in oidcKv : f.key # e.key
                     /\ e.key = lastCall'.key
                     /\ e.client_id = lastArgs'[1]
                     /\ e.redirect_uri = lastArgs'[2]
                     /\ e.token \in SessionTokens]_vars

\* After a code was stored for a configured client, issue_code for a client
\* that is not configured was refused
C17_Witness ==
    /\ lastCall.op = "issue"
    /\ lastCall.result = "UnauthorizedClient"
    /\ lastArgs[1] \notin DOMAIN Clients
    /\ oidcKv # {}

(***************************************************************************)
(* Properties of the upstream token verifier.                              *)
(***************************************************************************)
\* The key set has an entry for the token's kid, with the accepted algorithm,
\* that is the key the token was signed with (the entry the scan keeps)
GoodKey(keys, t) ==
    /\ \A i \in 1..Len(keys) : keys[i].kid # Absent
    /\ Matches(keys, t.kid) # {}
    /\ LastMatch(keys, t.kid).alg = ALGORITHM
    /\ LastMatch(keys, t.kid).mat = t.sig

\* C8: verify_token uses no key material from an earlier call: every call
\* that gets as far as the key fetches the JWKS afresh, and when the fetch
\* answers it succeeds exactly if the key set served at that moment has the
\* key that signed the token, so a token signed by a new key verifies after
\* the rotation and a token signed by a retired key does not.
C8_KeyRotation ==
    [][(vpc = "jwks" /\ vpc' = "done") =>
          /\ "jwks" \in vreqs'
          /\ vresult' = "ok" => (GoodKey(jwks, vtoken) /\ vtoken.claims = "good")
          /\ (vresult' # "FetchKeysError" /\ GoodKey(jwks, vtoken)
                  /\ vtoken.claims = "good")
                => vresult' = "ok"]_vars

\* A token verified with one key; that key was retired upstream; the next
\* token, signed by another key, verified as well
C8_Witness ==
    /\ vpc = "done" /\ vresult = "ok"
    /\ okMat \in Materials
    /\ okMat # vtoken.sig
    /\ \A i \in 1..Len(jwks) : jwks[i].mat # okMat

\* C9 as stated: a token whose iss claim is present and is not the configured
\* issuer fails with an invalid-issuer error whatever its header contains.
C9_AlwaysInvalidIssuer ==
    (vpc = "done" /\ vtoken.iss \notin {Absent, ConfigIssuer}) =>
        vresult = "InvalidIssuerError"

\* C9 amended: a token whose iss claim is present and is not the configured
\* issuer fails with an invalid-issuer error when its header has a kid and
\* with an unknown-kid error when its header has none; in both cases no HTTP
\* request is made.
C9_InvalidIssuerOrNoKid ==
    (vpc = "done" /\ vtoken.iss \notin {Absent, ConfigIssuer}) =>
        /\ vresult = IF vtoken.kid = Absent THEN "UnknownKeyIdError"
                     ELSE "InvalidIssuerError"
        /\ vreqs = {}

\* A token of another issuer without a kid was refused for the missing kid
C9_Witness ==
    /\ vpc = "done"
    /\ vtoken.iss \notin {Absent, ConfigIssuer}
    /\ vtoken.kid = Absent
    /\ vresult = "UnknownKeyIdError"

\* C10: for a token of the configured issuer, when the JWKS was fetched: if
\* no entry has the header's kid verify_token fails with UnknownKeyId, if the
\* matched entry's alg is not the configured algorithm it fails with
\* UnknownAlgorithm, and then no signature check is made and nothing returned.
C10_UnknownKeyOrAlgorithm ==
    [][(vpc = "jwks" /\ vpc' = "done" /\ vresult' # "FetchKeysError") =>
          /\ Matches(jwks, vtoken.kid) = {} =>
                 vresult' = "UnknownKeyIdError"
          /\ (/\ Matches(jwks, vtoken.kid) # {}
              /\ LastMatch(jwks, vtoken.kid).alg # ALGORITHM) =>
                 vresult' = "UnknownAlgorithmError"]_vars

\* C20: _get_keys falls back to the issuer's .well-known/jwks.json when the
\* discovery request returns non-200 or fails in transport; when discovery
\* returns 200 without a jwks_uri, or not JSON, the call fails with a
\* fetch-keys error and makes no JWKS request; the fallback URL is used in no
\* other case.
C20_JwksLocation ==
    vdisc # "none" =>
        /\ vdisc \in {"not_200", "request_error"} => vurl = "fallback"
        /\ vdisc \in {"no_jwks_uri", "not_json"} =>
              /\ vpc = "done"
              /\ vresult = "FetchKeysError"
              /\ "jwks" \notin vreqs
        /\ vurl = "fallback" => vdisc \in {"not_200", "request_error"}

(***************************************************************************)
(* Properties of create_user_info.                                         *)
(***************************************************************************)
\* C11: every failure of verify_token raised while create_user_info verifies
\* the id_token (invalid issuer, missing or unknown kid, unknown algorithm,
\* fetch-keys error, signature, audience or expiry failure) reaches the
\* caller of create_user_info as an OIDCError and as no other error.
C11_VerifyFailureIsOIDCError ==
    (ppc = "done" /\ phanded /\ vresult # "ok") => presult = "OIDCError"

\* C12: when the body of the token endpoint's response is not JSON,
\* create_user_info fails with an HTTP-status error for every status other
\* than 200 and with an OIDCError for status 200, and with nothing else.
C12_NotJsonStatusOrOIDC ==
    (ppc = "done" /\ presp[2] = "not_json") =>
        presult = IF presp[1] = 200 THEN "OIDCError" ELSE "HTTPStatusError"

\* C13: when the status is not 200 and the JSON body has an error field,
\* with or without an error_description, create_user_info fails with an
\* OIDCError.
C13_ErrorFieldIsOIDCError ==
    (/\ ppc = "done"
     /\ presp[1] # 200
     /\ presp[2] \in {"error_described", "error_only"}) =>
        presult = "OIDCError"

\* C14: a response whose status is not 200 always ends in failure: its
\* id_token is never handed to verify_token and no user info is returned.
C14_Non200NeverVerified ==
    (ppc # "idle" /\ presp[1] # 200) =>
        /\ ~phanded
        /\ presult # "user_info"

(***************************************************************************)
(* Properties of get_redirect_url.                                         *)
(***************************************************************************)
\* C21: whatever login_params is configured, the URL get_redirect_url returns
\* has response_type=code: login_params overrides every default parameter
\* except response_type.
C21_ResponseTypeCode ==
    redirectUrl # <<>> => QueryValue(redirectUrl, "response_type") = "code"

(***************************************************************************)
(* Properties of the Token codec.                                          *)
(***************************************************************************)
\* C22: for every valid key and secret, from_str of the token's string gives
\* that key and secret and str() of the result is the string again; every
\* other string (empty, no or wrong prefix, no dot, a character outside the
\* alphabet, an empty half, a further part) is rejected with
\* InvalidTokenError.
C22_TokenCodec ==
    tokOut # <<>> =>
        IF \E k \in [1..KeyLen -> Base64Chars],
              h \in [1..KeyLen -> Base64Chars] : tokIn = TokenStr(k, h)
        THEN /\ tokOut[1] = "ok"
             /\ tokIn = TokenStr(tokOut[2], tokOut[3])
             /\ tokOut[4] = tokIn
        ELSE tokOut[1] = "InvalidTokenError"

\* A token string with a further part after the secret was rejected
C22_Witness ==
    /\ tokOut # <<>>
    /\ tokOut[1] = "InvalidTokenError"
    /\ Len(tokIn) = 3 + KeyLen + 1 + KeyLen + 2
    /\ SubSeq(tokIn, 1, 3) = TokenPrefix
    /\ IsHalf(SubSeq(tokIn, 4, 3 + KeyLen))
    /\ tokIn[4 + KeyLen] = "."
    /\ IsHalf(SubSeq(tokIn, 5 + KeyLen, 4 + 2 * KeyLen))

(***************************************************************************)
(* Properties of the validity policy and of the issuance path.             *)
(***************************************************************************)
\* cache.get(...) of the call of c
CachedToken(c) ==
    IF req[c].kind = "internal"
    THEN internalCache[InternalKey(req[c])]
    ELSE notebookCache[NotebookKey(req[c])]

\* c leaves the cache check with a cached token, by returning it or by going
\* on to the issuance path
ChecksCached(c) ==
    /\ pc[c] = "check"
    /\ pc'[c] \in {"done", "query"}
    /\ CachedToken(c) # None

C24_WriteOrdering ==
    /\ \A row \in db :
          \/ KvHas(row.key)
          \/ row.expires # None /\ row.expires <= now
    /\ \A h \in history :
          h.action = "create" => \E row \in db : row.key = h.token

\* A call failed after the K/V write: the K/V record has no relational row
C24_Witness ==
    \E c \in Callers :
        /\ pc[c] = "failed"
        /\ \E r \in kv : r = data[c] /\ \A row \in db : row.key # r.key

\* The call of c returns the token that the relational store gave and whose
\* data the K/V store has
ServedFromDb(c) == pc[c] = "kvget" /\ pc'[c] = "done"

\* C25 as stated: a call served from the relational store leaves the
\* in-memory caches as they were.
C25_ReuseLeavesCache ==
    [][\A c \in Callers : ServedFromDb(c) => UNCHANGED caches]_vars

\* C25 amended: a call served from the relational store stores the reused
\* token in the in-memory cache under the cache key of the call, and changes
\* no other cache entry.
C25_ReuseIsCached ==
    [][\A c \in Callers :
          ServedFromDb(c) =>
              /\ ret'[c] = tok[c]
              /\ IF req[c].kind = "internal"
                 THEN /\ internalCache' =
                           [internalCache EXCEPT
                               ![InternalKey(req[c])] = tok[c]]
                      /\ UNCHANGED notebookCache
                 ELSE /\ notebookCache' =
                           [notebookCache EXCEPT
                               ![NotebookKey(req[c])] = tok[c]]
                      /\ UNCHANGED internalCache]_vars

\* An internal token cached under one cache key was reused by a call with
\* another cache key, and the cache holds it under the key of that call too
C25_Witness ==
    \E c \in Callers :
        /\ pc[c] = "done" /\ path[c] = "reuse" /\ req[c].kind = "internal"
        /\ internalCache[InternalKey(req[c])] = ret[c]
        /\ \E k \in InternalKeys :
              k # InternalKey(req[c]) /\ internalCache[k] = ret[c]

\* C26: the minimum expiration of a query is now + token_lifetime/2, or the
\* parent's expiration when that is sooner; the child that the relational
\* store gives is a child of the parent, of the requested type, whose expires
\* is not below it; and a call served with that child adds no K/V record, no
\* relational row, no history entry and draws no new token.
C26_ReuseAtLeastMinimum ==
    [][\A c \in Callers :
          /\ (pc[c] = "check" /\ pc'[c] = "query") =>
                minExp'[c] =
                    IF /\ req[c].pexp # None
                       /\ req[c].pexp < now + TokenLifetime \div 2
                    THEN req[c].pexp
                    ELSE now + TokenLifetime \div 2
          /\ (pc[c] = "query" /\ pc'[c] = "kvget") =>
                \E row \in db :
                    /\ row.key = tok'[c]
                    /\ row.parent = req[c].parent
                    /\ row.ttype = req[c].kind
                    /\ row.expires >= minExp[c]
          /\ ServedFromDb(c) =>
                /\ UNCHANGED <<stores, nextKey>>
                /\ \E row \in db :
                      row.key = ret'[c] /\ row.expires >= minExp[c]]_vars

\* A child was reused under a minimum expiration lowered to the expiration
\* of the parent
C26_Witness ==
    \E c \in Callers :
        /\ pc[c] = "done" /\ path[c] = "reuse"
        /\ minExp[c] = req[c].pexp
        /\ minExp[c] < now + TokenLifetime \div 2
        /\ data[c].expires >= minExp[c]

\* The cached token of the call of c has no data in the K/V store
CachedIsDead(c) == CachedToken(c) # None /\ ~KvHas(CachedToken(c))

\* C27 as stated: a call whose cached token has no data in the K/V store
\* mints a new token, so it is not served from the relational store.  Only
\* calls during which the clock did not advance are looked at: for them the
\* K/V store at the return is the K/V store at the cache check.
C27_DeadCachedAlwaysMints ==
    [][\A c \in Callers :
          (ServedFromDb(c) /\ sameTick[c]) => ~CachedIsDead(c)]_vars

\* C27 amended: a call whose cached token has no data in the K/V store goes
\* on to the issuance path; there, a key of the relational store without
\* data in the K/V store makes the call mint a new token, and a key with
\* data is returned; no such call fails, and a token returned from the cache
\* or from the relational store has its data in the K/V store.
C27_DeadTokenFallsThrough ==
    [][\A c \in Callers :
          /\ (pc[c] = "check" /\ pc'[c] # "check" /\ CachedIsDead(c)) =>
                pc'[c] = "query"
          /\ (pc[c] = "kvget" /\ pc'[c] # "kvget" /\ ~KvHas(tok[c])) =>
                /\ pc'[c] = "store_kv"
                /\ data'[c].key = nextKey
                /\ \A r \in kv : r.key # nextKey
          /\ (pc[c] \in {"check", "kvget"} /\ pc'[c] = "done") =>
                \E r \in kv : r.key = ret'[c]
          /\ pc'[c] # "failed"]_vars

\* The relational store gave a key without data in the K/V store and the
\* call is minting a new token
C27_Witness ==
    \E c \in Callers :
        /\ pc[c] = "store_kv"
        /\ tok[c] # None /\ ~KvHas(tok[c])
        /\ data[c].key # tok[c]

\* C28: after the expiration of the parent has been increased, a call for
\* that parent does not return the child that is cached under the old,
\* earlier expiration.
C28_ExtendedParentGetsNewChild ==
    \A c \in Callers :
        pc[c] = "done" =>
            \A old \in ParentExpiries :
                (old # None /\ req[c].pexp # None /\ old < req[c].pexp) =>
                    IF req[c].kind = "internal"
                    THEN internalCache[InternalKey(
                             [req[c] EXCEPT !.pexp = old])] # ret[c]
                    ELSE notebookCache[NotebookKey(
                             [req[c] EXCEPT !.pexp = old])] # ret[c]

(***************************************************************************)
(* Properties of the key lookup of the verifier.                           *)
(***************************************************************************)
\* The JWKS was fetched, every entry has a kid and some entry has the kid of
\* the token: the lookup has an entry to select
KeySelected ==
    /\ vpc = "jwks" /\ vpc' = "done"
    /\ vresult' # "FetchKeysError"
    /\ \A i \in 1..Len(jwks) : jwks[i].kid # Absent
    /\ \E i \in 1..Len(jwks) : jwks[i].kid = vtoken.kid

\* What verify_token ends with when the lookup selects the entry k
ResultWith(k) ==
    IF k.alg = Absent THEN "KeyError"
    ELSE IF k.alg # ALGORITHM THEN "UnknownAlgorithmError"
    ELSE IF vtoken.sig = k.mat /\ vtoken.claims = "good" THEN "ok"
    ELSE "InvalidTokenError"

\* C29 as stated: when several entries have the requested kid, the algorithm
\* check and the public key are those of the first such entry.
C29_FirstMatchWins ==
    [][KeySelected =>
          \E i \in 1..Len(jwks) :
              /\ jwks[i].kid = vtoken.kid
              /\ \A j \in 1..Len(jwks) : jwks[j].kid = vtoken.kid => i <= j
              /\ vresult' = ResultWith(jwks[i])]_vars

\* C29 amended: when several entries have the requested kid, the algorithm
\* check and the public key are those of the last such entry.
C29_LastMatchWins ==
    [][KeySelected =>
          \E i \in 1..Len(jwks) :
              /\ jwks[i].kid = vtoken.kid
              /\ \A j \in 1..Len(jwks) : jwks[j].kid = vtoken.kid => j <= i
              /\ vresult' = ResultWith(jwks[i])]_vars

\* Two entries have the kid of the token, the token was signed with the key
\* of the second only, and it was verified
C29_Witness ==
    /\ vpc = "done" /\ vresult = "ok" /\ "jwks" \in vreqs
    /\ Len(jwks) = 2
    /\ jwks[1].kid = vtoken.kid /\ jwks[2].kid = vtoken.kid
    /\ jwks[1].mat # vtoken.sig /\ jwks[2].mat = vtoken.sig

(***************************************************************************)
(* Properties of the deletion of a redeemed code.                          *)
(***************************************************************************)
\* C30: a redeem_code call that fails at the client authentication, at the
\* K/V lookup or at the comparison of the code's secret leaves the stored
\* codes unchanged; a call that passes the comparison deletes the entry of
\* the code, also when it then fails on client_id or redirect_uri; and a
\* call by an authenticated client for a code that has no entry fails with
\* InvalidGrant, so a later correct redemption of a deleted code does.
C30_DeletedFromSecretMatch ==
    [][(callBit' # callBit /\ lastCall'.op = "redeem") =>
          LET key == lastCall'.key
              stored == \E e \in oidcKv : e.key = key
          IN  /\ IF lastCall'.auth /\ stored /\ lastArgs'[5] = "yes"
                 THEN oidcKv' = {e \in oidcKv : e.key # key}
                 ELSE oidcKv' = oidcKv
              /\ (lastCall'.auth /\ ~stored) =>
                     lastCall'.result = "InvalidGrant"]_vars

\* An authenticated call with the right secret and another client_id or
\* redirect_uri than the stored one failed, and the code is gone
C30_Witness ==
    /\ lastCall.op = "redeem" /\ lastCall.auth
    /\ lastCall.result = "InvalidGrant"
    /\ lastArgs[5] = "yes"
    /\ lastArgs[3] # "none"
    /\ lastArgs[3] # lastArgs[1] \/ lastArgs[4] # lastArgs[2]
    /\ ~HasCode(lastCall.key)

(***************************************************************************)
(* Frame properties of the cache service.                                  *)
(***************************************************************************)
\* C31: a call that returns the cached token returns straight from the cache
\* check, so it has computed no minimum expiration and made no relational
\* query; and none of its steps (the call is made, the lock is taken, the
\* token is returned) writes to the K/V store, the relational store or the
\* history, draws a new token or changes either in-memory cache.
C31_CacheHitReadOnly ==
    [][\A c \in Callers :
          /\ (pc[c] # "done" /\ pc'[c] = "done" /\ path'[c] = "cache") =>
                /\ pc[c] = "check"
                /\ minExp'[c] = None /\ tok'[c] = None
                /\ UNCHANGED <<stores, caches, nextKey>>
          /\ (pc[c] # pc'[c] /\ pc'[c] \in {"lock", "check"}) =>
                UNCHANGED <<stores, caches, nextKey>>]_vars

\* A notebook token was returned from the cache
C31_Witness ==
    \E c \in Callers :
        /\ pc[c] = "done" /\ path[c] = "cache"
        /\ req[c].kind = "notebook"
        /\ notebookCache[NotebookKey(req[c])] = ret[c]
        /\ minExp[c] = None

(***************************************************************************)
(* Properties of the tokens the cache service returns.                     *)
(***************************************************************************)
\* C32: a token minted by the cache service has scopes within those of its
\* parent, a minted notebook token has exactly the scopes of its parent, and
\* a token that get_internal_token returns holds none of the requested
\* scopes that the parent does not hold.
C32_NoScopeEscalation ==
    \A c \in Callers :
        pc[c] = "done" =>
            /\ path[c] = "mint" =>
                  data[c].scopes \subseteq ParentScopes[req[c].parent]
            /\ (path[c] = "mint" /\ req[c].kind = "notebook") =>
                  data[c].scopes = ParentScopes[req[c].parent]
            /\ req[c].kind = "internal" =>
                  data[c].scopes \cap
                      (req[c].scopes \ ParentScopes[req[c].parent]) = {}

\* C33: a call returns only from the cache check, from the load of the key
\* the relational store gave, or from the last write of a minting.  A token
\* returned from the cache or from the relational store has its data in the
\* K/V store at that step; a minted token is the one whose data the call
\* wrote to the K/V store; a call that fails returns no token.
C33_ReturnedWasInKv ==
    [][\A c \in Callers :
          /\ (pc[c] # "done" /\ pc'[c] = "done") =>
                /\ pc[c] \in {"check", "kvget", "store_hist"}
                /\ ret'[c] # None
                /\ pc[c] \in {"check", "kvget"} =>
                      \E r \in kv : r.key = ret'[c]
                /\ pc[c] = "store_hist" => ret'[c] = data[c].key
          /\ (pc[c] = "store_kv" /\ pc'[c] # "store_kv") =>
                \/ pc'[c] = "failed"
                \/ pc'[c] = "store_db" /\ data[c] \in kv'
          /\ (pc[c] \in {"store_db", "store_hist"} /\ pc'[c] # "failed") =>
                data'[c].key = data[c].key
          /\ pc'[c] = "failed" => ret'[c] = None]_vars

\* A minted token was returned after its K/V record, written by the call,
\* had run out
C33_Witness ==
    \E c \in Callers :
        /\ pc[c] = "done" /\ path[c] = "mint"
        /\ ~KvHas(ret[c])
        /\ \E row \in db : row.key = ret[c]

\* The issuance of token k was completed: its K/V record, its relational
\* row and its history entry were all written
FullyIssued(k) ==
    /\ \E row \in db : row.key = k
    /\ \E h \in history : h.token = k /\ h.action = "create"

\* C34: a call in which the relational query or one of the writes fails
\* changes neither in-memory cache, the caches change only when a call
\* returns from the issuance path, and no call is served from the cache a
\* token of an issuance that was aborted.
C34_FailedIssuanceNotCached ==
    /\ [][/\ \A c \in Callers :
                (pc[c] # "failed" /\ pc'[c] = "failed") => UNCHANGED caches
          /\ caches' # caches =>
                \E c \in Callers :
                    pc[c] \in {"kvget", "store_hist"} /\ pc'[c] = "done"]_vars
    /\ [](\A c \in Callers :
             (pc[c] = "done" /\ path[c] = "cache") => FullyIssued(ret[c]))

(***************************************************************************)
(* Properties of the requests and errors of the verifier.                  *)
(***************************************************************************)
\* C35: the discovery and JWKS requests of verify_token are made, or about
\* to be made, only for a token whose iss is the configured issuer and whose
\* header has a kid; for a token that fails either test no request is made.
C35_RequestsOnlyForConfiguredIssuer ==
    /\ (vreqs # {} \/ vpc \in {"discovery", "jwks"}) =>
          vtoken.iss = ConfigIssuer /\ vtoken.kid # Absent
    /\ (vpc = "done" /\ (vtoken.iss # ConfigIssuer \/ vtoken.kid = Absent)) =>
          /\ vreqs = {}
          /\ vresult \in {"InvalidIssuerError", "UnknownKeyIdError"}

\* A token with a kid from another issuer was rejected with no request made
C35_Witness ==
    /\ vpc = "done"
    /\ vtoken.iss \notin {Absent, ConfigIssuer}
    /\ vtoken.kid # Absent
    /\ vresult = "InvalidIssuerError"
    /\ vreqs = {}

\* C36: once the JWKS request has been made, the key lookup returns a key
\* (the token is then decoded with it) or fails with FetchKeysError,
\* UnknownKeyIdError or UnknownAlgorithmError, whatever entries the key set
\* holds; it fails with no other error.
C36_DeclaredErrorsOnly ==
    (vpc = "done" /\ "jwks" \in vreqs) =>
        vresult \in {"ok", "InvalidTokenError", "FetchKeysError",
                     "UnknownKeyIdError", "UnknownAlgorithmError"}

====
